---- MODULE Spec2Model ----
(***************************************************************************)
(* The azurerm_postgresql_flexible_server_firewall_rules resource:         *)
(* Create / Update / Delete of                                             *)
(* internal/services/postgres/                                             *)
(*   postgresql_flexible_server_firewall_rules_resource.go                 *)
(* as a state machine.  Every invocation is a main goroutine; every        *)
(* dispatched rule is a worker goroutine (batchDelete or                   *)
(* batchCreateOrUpdate); every `go func() { wg.Wait(); close(errs) }()` is *)
(* a closer goroutine.  The remote rule store, the list call and the       *)
(* single-item calls are the Azure API; the named-mutex registry is        *)
(* internal/locks.                                                         *)
(***************************************************************************)
EXTENDS Integers, FiniteSets, Sequences, TLC

VARIABLES
    remote,     \* the remote store: firewall rule ID -> address range, or NoRule
    locks,      \* internal/locks registry: lock name -> holding invocation, 0 = free
    req,        \* per invocation: the call (kind, server ID, decoded model, HasChange)
    pc,         \* per invocation: where its main goroutine stands
    listed,     \* per invocation: Items of its ListByServerComplete result
    workers,    \* per invocation: its worker goroutines, keyed by <<phase, rule ID>>
    closers,    \* per invocation: its closer goroutines, keyed by the order of launch
    sem,        \* per invocation: number of values in the semaphore channel
    wg,         \* per invocation: the WaitGroup counter
    errs,       \* per invocation: the channel the variable errs holds (0: none yet)
    closed,     \* per invocation: channel -> number of times close() ran on it
    collected,  \* per invocation: number of values the range loops received
    ret,        \* per invocation: what Func returned (Pending until it returns)
    idSet,      \* per invocation: metadata.SetID was called
    before      \* per invocation: the rules of its server when it took the lock

vars == <<remote, locks, req, pc, listed, workers, closers, sem, wg, errs,
          closed, collected, ret, idSet, before>>

----------------------------------------------------------------------------
(* Bounds of the model *)

\* capacity of the semaphore channel; the source sets 100 (line 24), the model
\* scales it down so that a phase can hold more rules than permits
maxConcurrency == 2

\* number of distinct rule names
MaxRules == 3

Names == 1..MaxRules

\* the names the two-invocation specifications draw from
PairNames == 1..(MaxRules - 1)

\* the names the fair two-invocation specification draws from
FairNames == {1, 2}

Inv == {1, 2}

----------------------------------------------------------------------------
(* Data *)

NoRule == [start |-> 0, end |-> 0]

Ranges == {[start |-> 1, end |-> 1], [start |-> 1, end |-> 2]}

\* the ranges of the rules a server holds when a run starts
InitialRanges == {[start |-> 1, end |-> 1]}

AccountSub == "subA"

P1 == [sub |-> "subA", rg |-> "rg1", name |-> "srv1"]

P2 == [sub |-> "subB", rg |-> "rg2", name |-> "srv1"]

Parents == {P1, P2}

NewFirewallRuleID(sub, rg, server, name) == <<sub, rg, server, name>>

RuleIDsOf(p) == {NewFirewallRuleID(p.sub, p.rg, p.name, n) : n \in Names}

RuleIDs == UNION {RuleIDsOf(p) : p \in Parents}

\* a rule ID as the API spells it: its segments, and whether the fixed segments
\* are spelled the way the case-sensitive parser wants them
RawID(id, canon) == [segs |-> id, canon |-> canon]

ParseFirewallRuleID(raw) == [ok |-> raw.canon, id |-> raw.segs]

ParseFirewallRuleIDInsensitively(raw) == [ok |-> TRUE, id |-> raw.segs]

Pending == [type |-> "pending"]

Nil == [type |-> "nil"]

ListErrors == {"NotFound", "Other"}

ListError(e) == [type |-> "list", cause |-> e]

ImportAsExistsError == [type |-> "exists"]

ParseError == [type |-> "parse"]

\* the entry points that change the rules of a server
Reconciles == {"Create", "Update", "Delete"}

\* what Read returns after metadata.MarkAsGone (line 186)
Gone == [type |-> "gone"]

\* what Read returns after metadata.Encode(&state) of the rules it listed
Encoded(rules) == [type |-> "encoded", rules |-> rules]

\* response.WasNotFound on the response of a failed listing
WasNotFound(e) == e = "NotFound"

ItemError(k) == [type |-> "item", phase |-> k[1], id |-> k[2]]

NoRules == [n \in Names |-> NoRule]

DesiredNames(rules) == {n \in Names : rules[n] # NoRule}

\* the name of the mutex: locks.ByName(id.FlexibleServerName, resourceName)
LockName(p) == p.name

LockNames == {LockName(p) : p \in Parents}

----------------------------------------------------------------------------
(* The collaborators: the remote store and the lock registry *)

RuleID(p, n) == NewFirewallRuleID(p.sub, p.rg, p.name, n)

\* Items of a successful ListByServerComplete(id): the rules the server holds;
\* nc is the set of names whose ID the API spells in non-canonical case
ListItems(p, nc) ==
    {[id |-> RawID(RuleID(p, n), n \notin nc), rng |-> remote[RuleID(p, n)]] :
        n \in {m \in Names : remote[RuleID(p, m)] # NoRule}}

\* the rules of server p, by name: what a listing of p shows
ServerRules(p) == [n \in Names |-> remote[RuleID(p, n)]]

\* locks.ByName: blocks until the named mutex is free, then holds it
ByName(name, i) ==
    /\ locks[name] = 0
    /\ locks' = [locks EXCEPT ![name] = i]

\* locks.UnlockByName
UnlockByName(name) == locks' = [locks EXCEPT ![name] = 0]

----------------------------------------------------------------------------
(* Helpers of the main goroutine *)

\* Return with the unlock written before `return nil` instead of deferred
ReturnUnlockOnSuccess(i, r) ==
    /\ ret' = [ret EXCEPT ![i] = r]
    /\ pc' = [pc EXCEPT ![i] = "done"]
    /\ IF r = Nil THEN UnlockByName(LockName(req[i].parent)) ELSE UNCHANGED locks

\* `return r` of Func: the deferred UnlockByName runs, the caller gets r
Return(i, r) ==
    /\ ret' = [ret EXCEPT ![i] = r]
    /\ pc' = [pc EXCEPT ![i] = "done"]
    /\ UnlockByName(LockName(req[i].parent))

\* firewallRules: the map from rule ID to rule built from model.Rule
FirewallRulesMap(sub, p, rules) ==
    [id \in {NewFirewallRuleID(sub, p.rg, p.name, n) : n \in DesiredNames(rules)}
        |-> rules[id[4]]]

\* the loop `wg.Add(1); go batch...(…, wg, semaphore, errs)` over the IDs of a map
Spawn(i, phase, ch, rules) ==
    /\ workers' = [workers EXCEPT ![i] =
            [k \in {<<phase, id>> : id \in DOMAIN rules} |->
                [st |-> "start", ch |-> ch, rule |-> rules[k[2]], failed |-> FALSE]]
            @@ @]
    /\ wg' = [wg EXCEPT ![i] = @ + Cardinality(DOMAIN rules)]

\* `go func() { wg.Wait(); close(errs) }()`
GoCloser(i) ==
    closers' = [closers EXCEPT ![i] = Append(@, "wait")]

\* the rules of a delete phase as a map (a deleted rule carries no body)
AsDeletes(ids) == [id \in ids |-> NoRule]

SeqsOf(S) ==
    {s \in [1..Cardinality(S) -> S] : \A a, b \in 1..Cardinality(S) : s[a] = s[b] => a = b}

\* the items of a listing that precede the first whose ID does not parse
ParsedPrefix(s) ==
    {s[a].id.segs : a \in {b \in 1..Len(s) :
        \A c \in 1..b : ParseFirewallRuleID(s[c].id).ok}}

----------------------------------------------------------------------------
(* The main goroutine of Create, Update and Delete *)

\* lines 114, 224, 319: locks.ByName(id.FlexibleServerName, ...), unlock deferred
Lock(i) ==
    /\ pc[i] = "idle"
    /\ req[i].kind \in Reconciles
    /\ ByName(LockName(req[i].parent), i)
    /\ pc' = [pc EXCEPT ![i] = "locked"]
    /\ before' = [before EXCEPT ![i] = ServerRules(req[i].parent)]
    /\ UNCHANGED <<remote, req, listed, workers, closers, sem, wg, errs, closed,
                   collected, ret, idSet>>

\* metadata.ResourceData.HasChange("firewall_rule") of line 227.  The schema
\* (Arguments, lines 44-80) declares the keys "server_id" and "rule" and no
\* key "firewall_rule": the answer is the SDK's for an undeclared key, an input
\* of the call that the desired rules do not determine.
HasChange(i) == req[i].hasChange

\* Update, line 227: HasChange("firewall_rule") is false, line 303 returns nil
UpdateUnchanged(i) ==
    /\ pc[i] = "locked"
    /\ req[i].kind = "Update"
    /\ ~HasChange(i)
    /\ Return(i, Nil)
    /\ UNCHANGED <<remote, req, listed, workers, closers, sem, wg, errs, closed,
                   collected, idSet, before>>

\* lines 117, 228, 322: the call of ListByServerComplete begins
ListByServerComplete(i) ==
    /\ pc[i] = "locked"
    /\ req[i].kind = "Update" => HasChange(i)
    /\ pc' = [pc EXCEPT ![i] = "list"]
    /\ UNCHANGED <<remote, locks, req, listed, workers, closers, sem, wg, errs,
                   closed, collected, ret, idSet, before>>

\* lines 118-120, 229-231, 323-325: the listing fails and its error is returned
ListFailed(i) ==
    /\ pc[i] = "list"
    /\ \E e \in ListErrors : Return(i, ListError(e))
    /\ UNCHANGED <<remote, req, listed, workers, closers, sem, wg, errs, closed,
                   collected, idSet, before>>

\* CreateExists without the test of line 121: the rules found are adopted
CreateExistsAdopts(i) ==
    /\ pc[i] = "list"
    /\ req[i].kind = "Create"
    /\ \E nc \in SUBSET Names :
        /\ nc \subseteq {n \in Names : remote[RuleID(req[i].parent, n)] # NoRule}
        /\ ListItems(req[i].parent, nc) # {}
        /\ listed' = [listed EXCEPT ![i] = ListItems(req[i].parent, nc)]
    /\ errs' = [errs EXCEPT ![i] = 1]
    /\ Spawn(i, "upsert", 1,
             FirewallRulesMap(req[i].parent.sub, req[i].parent, req[i].rules))
    /\ GoCloser(i)
    /\ pc' = [pc EXCEPT ![i] = "rangeUps"]
    /\ UNCHANGED <<remote, locks, req, sem, closed, collected, ret, idSet, before>>

\* Create, lines 121-123: the server holds rules already
CreateExists(i) ==
    /\ pc[i] = "list"
    /\ req[i].kind = "Create"
    /\ \E nc \in SUBSET Names :
        /\ nc \subseteq {n \in Names : remote[RuleID(req[i].parent, n)] # NoRule}
        /\ ListItems(req[i].parent, nc) # {}
        /\ listed' = [listed EXCEPT ![i] = ListItems(req[i].parent, nc)]
    /\ Return(i, ImportAsExistsError)
    /\ UNCHANGED <<remote, req, workers, closers, sem, wg, errs, closed,
                   collected, idSet, before>>

\* CreateDispatch with metadata.SetID called ahead of the workers
CreateDispatchSetsID(i) ==
    /\ pc[i] = "list"
    /\ req[i].kind = "Create"
    /\ ListItems(req[i].parent, {}) = {}
    /\ listed' = [listed EXCEPT ![i] = {}]
    /\ errs' = [errs EXCEPT ![i] = 1]
    /\ Spawn(i, "upsert", 1,
             FirewallRulesMap(req[i].parent.sub, req[i].parent, req[i].rules))
    /\ GoCloser(i)
    /\ idSet' = [idSet EXCEPT ![i] = TRUE]
    /\ pc' = [pc EXCEPT ![i] = "rangeUps"]
    /\ UNCHANGED <<remote, locks, req, sem, closed, collected, ret, before>>

\* Create, lines 121-151: the server holds no rule; one worker per desired rule
CreateDispatch(i) ==
    /\ pc[i] = "list"
    /\ req[i].kind = "Create"
    /\ ListItems(req[i].parent, {}) = {}
    /\ listed' = [listed EXCEPT ![i] = {}]
    /\ errs' = [errs EXCEPT ![i] = 1]
    /\ Spawn(i, "upsert", 1,
             FirewallRulesMap(req[i].parent.sub, req[i].parent, req[i].rules))
    /\ GoCloser(i)
    /\ pc' = [pc EXCEPT ![i] = "rangeUps"]
    /\ UNCHANGED <<remote, locks, req, sem, closed, collected, ret, idSet, before>>

\* rulesToDelete of Update, lines 247-256
RulesToDelete(items, firewallRules) ==
    {ParseFirewallRuleIDInsensitively(v.id).id : v \in
        {w \in items : /\ ParseFirewallRuleIDInsensitively(w.id).ok
                       /\ ParseFirewallRuleIDInsensitively(w.id).id
                              \notin DOMAIN firewallRules}}

\* UpdateDeletePhase with the upsert workers launched beside the delete workers
UpdatePipelined(i) ==
    /\ pc[i] = "list"
    /\ req[i].kind = "Update"
    /\ \E nc \in SUBSET Names :
        /\ nc \subseteq {n \in Names : remote[RuleID(req[i].parent, n)] # NoRule}
        /\ listed' = [listed EXCEPT ![i] = ListItems(req[i].parent, nc)]
    /\ errs' = [errs EXCEPT ![i] = 1]
    /\ LET firewallRules == FirewallRulesMap(AccountSub, req[i].parent, req[i].rules)
           toDelete == AsDeletes(RulesToDelete(listed'[i], firewallRules))
       IN  /\ workers' = [workers EXCEPT ![i] =
                   [k \in {<<"delete", id>> : id \in DOMAIN toDelete} |->
                       [st |-> "start", ch |-> 1, rule |-> NoRule, failed |-> FALSE]]
                   @@ [k \in {<<"upsert", id>> : id \in DOMAIN firewallRules} |->
                       [st |-> "start", ch |-> 1, rule |-> firewallRules[k[2]],
                        failed |-> FALSE]]]
           /\ wg' = [wg EXCEPT ![i] = Cardinality(DOMAIN toDelete)
                                       + Cardinality(DOMAIN firewallRules)]
    /\ GoCloser(i)
    /\ pc' = [pc EXCEPT ![i] = "rangeDel"]
    /\ UNCHANGED <<remote, locks, req, sem, closed, collected, ret, idSet, before>>

\* Update, lines 228-270: list, diff, one delete worker per rule to delete
UpdateDeletePhase(i) ==
    /\ pc[i] = "list"
    /\ req[i].kind = "Update"
    /\ \E nc \in SUBSET Names :
        /\ nc \subseteq {n \in Names : remote[RuleID(req[i].parent, n)] # NoRule}
        /\ listed' = [listed EXCEPT ![i] = ListItems(req[i].parent, nc)]
    /\ errs' = [errs EXCEPT ![i] = 1]
    /\ Spawn(i, "delete", 1,
             AsDeletes(RulesToDelete(listed'[i],
                 FirewallRulesMap(AccountSub, req[i].parent, req[i].rules))))
    /\ GoCloser(i)
    /\ pc' = [pc EXCEPT ![i] = "rangeDel"]
    /\ UNCHANGED <<remote, locks, req, sem, closed, collected, ret, idSet, before>>

\* Update, lines 278-292: wg.Wait(), a new errs, one upsert worker per desired rule
UpdateUpsertPhase(i) ==
    /\ pc[i] = "waitDel"
    /\ req[i].kind = "Update"
    /\ wg[i] = 0
    /\ errs' = [errs EXCEPT ![i] = 2]
    /\ Spawn(i, "upsert", 2,
             FirewallRulesMap(AccountSub, req[i].parent, req[i].rules))
    /\ GoCloser(i)
    /\ pc' = [pc EXCEPT ![i] = "rangeUps"]
    /\ UNCHANGED <<remote, locks, req, listed, sem, closed, collected, ret, idSet, before>>

\* Delete, lines 322-337 with the return of line 333: the ID of a listed rule
\* does not parse; the rules before it in Items have their workers already
DeleteParseFailed(i) ==
    /\ pc[i] = "list"
    /\ req[i].kind = "Delete"
    /\ \E nc \in SUBSET Names :
        /\ nc \subseteq {n \in Names : remote[RuleID(req[i].parent, n)] # NoRule}
        /\ nc # {}
        /\ listed' = [listed EXCEPT ![i] = ListItems(req[i].parent, nc)]
    /\ errs' = [errs EXCEPT ![i] = 1]
    /\ \E s \in SeqsOf(listed'[i]) : Spawn(i, "delete", 1, AsDeletes(ParsedPrefix(s)))
    /\ Return(i, ParseError)
    /\ UNCHANGED <<remote, req, closers, sem, closed, collected, idSet, before>>

\* DeleteDispatch on the Items another invocation listed, with no listing of its own
DeleteDispatchCached(i) ==
    /\ pc[i] = "list"
    /\ req[i].kind = "Delete"
    /\ \E j \in Inv \ {i} : listed' = [listed EXCEPT ![i] = listed[j]]
    /\ errs' = [errs EXCEPT ![i] = 1]
    /\ Spawn(i, "delete", 1, AsDeletes({v.id.segs : v \in listed'[i]}))
    /\ GoCloser(i)
    /\ pc' = [pc EXCEPT ![i] = "rangeDel"]
    /\ UNCHANGED <<remote, locks, req, sem, closed, collected, ret, idSet, before>>

\* DeleteDispatch with one of the listed rules left without a worker
DeleteDispatchSkipsOne(i) ==
    /\ pc[i] = "list"
    /\ req[i].kind = "Delete"
    /\ listed' = [listed EXCEPT ![i] = ListItems(req[i].parent, {})]
    /\ errs' = [errs EXCEPT ![i] = 1]
    /\ \E skip \in SUBSET {v.id.segs : v \in listed'[i]} :
        /\ Cardinality(skip) = IF listed'[i] = {} THEN 0 ELSE 1
        /\ Spawn(i, "delete", 1, AsDeletes({v.id.segs : v \in listed'[i]} \ skip))
    /\ GoCloser(i)
    /\ pc' = [pc EXCEPT ![i] = "rangeDel"]
    /\ UNCHANGED <<remote, locks, req, sem, closed, collected, ret, idSet, before>>

\* Delete, lines 322-342: every listed ID parses; one delete worker per listed rule
DeleteDispatch(i) ==
    /\ pc[i] = "list"
    /\ req[i].kind = "Delete"
    /\ listed' = [listed EXCEPT ![i] = ListItems(req[i].parent, {})]
    /\ errs' = [errs EXCEPT ![i] = 1]
    /\ Spawn(i, "delete", 1, AsDeletes({v.id.segs : v \in listed'[i]}))
    /\ GoCloser(i)
    /\ pc' = [pc EXCEPT ![i] = "rangeDel"]
    /\ UNCHANGED <<remote, locks, req, sem, closed, collected, ret, idSet, before>>

RangePcs == {"rangeDel", "rangeUps"}

\* RangeRecv without `return chanErr`: the loop goes on after an error
RangeRecvSkipsError(i, k) ==
    /\ pc[i] \in RangePcs
    /\ workers[i][k].st = "send"
    /\ workers[i][k].ch = errs[i]
    /\ closed[i][errs[i]] = 0
    /\ workers' = [workers EXCEPT ![i][k].st = "sent"]
    /\ collected' = [collected EXCEPT ![i] = @ + 1]
    /\ UNCHANGED <<remote, locks, req, pc, listed, closers, sem, wg, errs, closed,
                   ret, idSet, before>>

\* `for chanErr := range errs` receives the value worker k sends
\* (lines 153-157, 272-276, 294-298, 344-348; the send of lines 360, 367)
RangeRecv(i, k) ==
    /\ pc[i] \in RangePcs
    /\ workers[i][k].st = "send"
    /\ workers[i][k].ch = errs[i]
    /\ closed[i][errs[i]] = 0
    /\ workers' = [workers EXCEPT ![i][k].st = "sent"]
    /\ collected' = [collected EXCEPT ![i] = @ + 1]
    /\ IF workers[i][k].failed
       THEN Return(i, ItemError(k))
       ELSE UNCHANGED <<pc, ret, locks>>
    /\ UNCHANGED <<remote, req, listed, closers, sem, wg, errs, closed, idSet, before>>

\* the range loop ends: errs is closed
RangeClosed(i) ==
    /\ pc[i] \in RangePcs
    /\ closed[i][errs[i]] > 0
    /\ pc' = [pc EXCEPT ![i] = IF pc[i] = "rangeDel" THEN "waitDel" ELSE "waitUps"]
    /\ UNCHANGED <<remote, locks, req, listed, workers, closers, sem, wg, errs,
                   closed, collected, ret, idSet, before>>

\* Create, lines 159-163: wg.Wait(), SetID, return nil
CreateFinish(i) ==
    /\ pc[i] = "waitUps"
    /\ req[i].kind = "Create"
    /\ wg[i] = 0
    /\ idSet' = [idSet EXCEPT ![i] = TRUE]
    /\ Return(i, Nil)
    /\ UNCHANGED <<remote, req, listed, workers, closers, sem, wg, errs, closed,
                   collected, before>>

\* Update, lines 300-303: wg.Wait(), return nil
UpdateFinish(i) ==
    /\ pc[i] = "waitUps"
    /\ req[i].kind = "Update"
    /\ wg[i] = 0
    /\ Return(i, Nil)
    /\ UNCHANGED <<remote, req, listed, workers, closers, sem, wg, errs, closed,
                   collected, idSet, before>>

\* Delete, lines 350-352: wg.Wait(), return nil
DeleteFinish(i) ==
    /\ pc[i] = "waitDel"
    /\ req[i].kind = "Delete"
    /\ wg[i] = 0
    /\ Return(i, Nil)
    /\ UNCHANGED <<remote, req, listed, workers, closers, sem, wg, errs, closed,
                   collected, idSet, before>>

----------------------------------------------------------------------------
(* Read (lines 168-205): no lock, one listing *)

\* line 183: ListByServerComplete returns, with an error or with Items
ReadList(i) ==
    /\ pc[i] = "idle"
    /\ req[i].kind = "Read"
    /\ \/ /\ \E e \in ListErrors :
                pc' = [pc EXCEPT ![i] = IF WasNotFound(e) THEN "readNotFound"
                                                          ELSE "readError"]
          /\ UNCHANGED listed
       \/ /\ \E nc \in SUBSET Names :
                /\ nc \subseteq {n \in Names : remote[RuleID(req[i].parent, n)] # NoRule}
                /\ listed' = [listed EXCEPT ![i] = ListItems(req[i].parent, nc)]
          /\ pc' = [pc EXCEPT ![i] = "readOk"]
    /\ UNCHANGED <<remote, locks, req, workers, closers, sem, wg, errs, closed,
                   collected, ret, idSet, before>>

\* ReadMarkAsGone with the missing server read as a server without rules
ReadEncodesEmpty(i) ==
    /\ pc[i] = "readNotFound"
    /\ ret' = [ret EXCEPT ![i] = Encoded(NoRules)]
    /\ pc' = [pc EXCEPT ![i] = "done"]
    /\ UNCHANGED <<remote, locks, req, listed, workers, closers, sem, wg, errs,
                   closed, collected, idSet, before>>

\* lines 185-187: the server is not found, `return metadata.MarkAsGone(id)`
ReadMarkAsGone(i) ==
    /\ pc[i] = "readNotFound"
    /\ ret' = [ret EXCEPT ![i] = Gone]
    /\ pc' = [pc EXCEPT ![i] = "done"]
    /\ UNCHANGED <<remote, locks, req, listed, workers, closers, sem, wg, errs,
                   closed, collected, idSet, before>>

\* line 188: any other error of the listing is returned
ReadError(i) ==
    /\ pc[i] = "readError"
    /\ ret' = [ret EXCEPT ![i] = ListError("Other")]
    /\ pc' = [pc EXCEPT ![i] = "done"]
    /\ UNCHANGED <<remote, locks, req, listed, workers, closers, sem, wg, errs,
                   closed, collected, idSet, before>>

\* lines 191-202: the listed rules, by name, are encoded into the state
ReadEncode(i) ==
    /\ pc[i] = "readOk"
    /\ ret' = [ret EXCEPT ![i] = Encoded(
                 [n \in Names |->
                     IF \E v \in listed[i] : v.id.segs[4] = n
                     THEN (CHOOSE v \in listed[i] : v.id.segs[4] = n).rng
                     ELSE NoRule])]
    /\ pc' = [pc EXCEPT ![i] = "done"]
    /\ UNCHANGED <<remote, locks, req, listed, workers, closers, sem, wg, errs,
                   closed, collected, idSet, before>>

----------------------------------------------------------------------------
(* The worker goroutines: batchDelete (lines 364-369) and                  *)
(* batchCreateOrUpdate (lines 357-362)                                     *)

\* SemAcquire on a semaphore that never blocks
SemAcquireUnbounded(i, k) ==
    /\ workers[i][k].st = "start"
    /\ sem' = [sem EXCEPT ![i] = @ + 1]
    /\ workers' = [workers EXCEPT ![i][k].st = "op"]
    /\ UNCHANGED <<remote, locks, req, pc, listed, closers, wg, errs, closed,
                   collected, ret, idSet, before>>

\* lines 359, 366: `semaphore <- struct{}{}`; the remote call begins
SemAcquire(i, k) ==
    /\ workers[i][k].st = "start"
    /\ sem[i] < maxConcurrency
    /\ sem' = [sem EXCEPT ![i] = @ + 1]
    /\ workers' = [workers EXCEPT ![i][k].st = "op"]
    /\ UNCHANGED <<remote, locks, req, pc, listed, closers, wg, errs, closed,
                   collected, ret, idSet, before>>

\* line 367: client.DeleteThenPoll(ctx, id) returns; the worker goes on to send
DeleteThenPoll(i, k) ==
    /\ k[1] = "delete"
    /\ workers[i][k].st = "op"
    /\ \E ok \in BOOLEAN :
        /\ remote' = IF ok THEN [remote EXCEPT ![k[2]] = NoRule] ELSE remote
        /\ workers' = [workers EXCEPT ![i][k].st = "send", ![i][k].failed = ~ok]
    /\ UNCHANGED <<locks, req, pc, listed, closers, sem, wg, errs, closed,
                   collected, ret, idSet, before>>

\* line 360: client.CreateOrUpdateThenPoll(ctx, id, rule) returns; a rule of a
\* server that does not exist cannot be written
CreateOrUpdateThenPoll(i, k) ==
    /\ k[1] = "upsert"
    /\ workers[i][k].st = "op"
    /\ \E ok \in BOOLEAN :
        /\ ok => k[2] \in RuleIDs
        /\ remote' = IF ok THEN [remote EXCEPT ![k[2]] = workers[i][k].rule] ELSE remote
        /\ workers' = [workers EXCEPT ![i][k].st = "send", ![i][k].failed = ~ok]
    /\ UNCHANGED <<locks, req, pc, listed, closers, sem, wg, errs, closed,
                   collected, ret, idSet, before>>

\* SemRelease without the receive from the semaphore: the permit stays taken
SemReleaseKeepsPermit(i, k) ==
    /\ workers[i][k].st = "sent"
    /\ workers' = [workers EXCEPT ![i][k].st = "released"]
    /\ UNCHANGED <<remote, locks, req, pc, listed, closers, sem, wg, errs, closed,
                   collected, ret, idSet, before>>

\* lines 361, 368: `<-semaphore`
SemRelease(i, k) ==
    /\ workers[i][k].st = "sent"
    /\ sem' = [sem EXCEPT ![i] = @ - 1]
    /\ workers' = [workers EXCEPT ![i][k].st = "released"]
    /\ UNCHANGED <<remote, locks, req, pc, listed, closers, wg, errs, closed,
                   collected, ret, idSet, before>>

\* lines 358, 365: the deferred wg.Done()
WgDone(i, k) ==
    /\ workers[i][k].st = "released"
    /\ wg' = [wg EXCEPT ![i] = @ - 1]
    /\ workers' = [workers EXCEPT ![i][k].st = "done"]
    /\ UNCHANGED <<remote, locks, req, pc, listed, closers, sem, errs, closed,
                   collected, ret, idSet, before>>

----------------------------------------------------------------------------
(* The closer goroutines (lines 148-151, 267-270, 289-292, 339-342) *)

\* CloserWait without the wg.Wait(): the closer goes straight to close(errs)
CloserSkipsWait(i, c) ==
    /\ closers[i][c] = "wait"
    /\ closers' = [closers EXCEPT ![i][c] = "close"]
    /\ UNCHANGED <<remote, locks, req, pc, listed, workers, sem, wg, errs, closed,
                   collected, ret, idSet, before>>

\* wg.Wait() returns
CloserWait(i, c) ==
    /\ closers[i][c] = "wait"
    /\ wg[i] = 0
    /\ closers' = [closers EXCEPT ![i][c] = "close"]
    /\ UNCHANGED <<remote, locks, req, pc, listed, workers, sem, wg, errs, closed,
                   collected, ret, idSet, before>>

\* close(errs): the closure reads the variable errs when it gets here
CloserClose(i, c) ==
    /\ closers[i][c] = "close"
    /\ closers' = [closers EXCEPT ![i][c] = "done"]
    /\ closed' = [closed EXCEPT ![i][errs[i]] = @ + 1]
    /\ UNCHANGED <<remote, locks, req, pc, listed, workers, sem, wg, errs,
                   collected, ret, idSet, before>>

----------------------------------------------------------------------------
(* The calls and the stores a run starts from *)

\* model.Rule of a Create or an Update: at least one rule (MinItems, line 56);
\* the first name may ask for any range, the others for an initial one
RuleSets(names, ranges) ==
    {r \in [Names -> ranges \cup {NoRule}] :
        /\ DesiredNames(r) # {}
        /\ DesiredNames(r) \subseteq names
        /\ \A n \in DesiredNames(r) : n # 1 => r[n] \in InitialRanges}

NoCall == [kind |-> "none", parent |-> P1, rules |-> NoRules, hasChange |-> FALSE]

Calls(p, names, ranges) ==
    {[kind |-> "Create", parent |-> p, rules |-> r, hasChange |-> FALSE] :
        r \in RuleSets(names, ranges)}
    \cup {[kind |-> "Update", parent |-> p, rules |-> r, hasChange |-> h] :
        r \in RuleSets(names, ranges), h \in BOOLEAN}
    \cup {[kind |-> "Delete", parent |-> p, rules |-> NoRules, hasChange |-> FALSE]}
    \cup {[kind |-> "Read", parent |-> p, rules |-> NoRules, hasChange |-> FALSE]}

\* the rules a server holds when a run starts
Stores(p, names) ==
    {s \in [RuleIDs -> InitialRanges \cup {NoRule}] :
        \A id \in RuleIDs : s[id] # NoRule => id \in RuleIDsOf(p) /\ id[4] \in names}

InitWith(calls, stores) ==
    /\ remote \in stores
    /\ req \in calls
    /\ locks = [n \in LockNames |-> 0]
    /\ pc = [i \in Inv |-> "idle"]
    /\ listed = [i \in Inv |-> {}]
    /\ workers = [i \in Inv |-> [k \in {} |-> 0]]
    /\ closers = [i \in Inv |-> <<>>]
    /\ sem = [i \in Inv |-> 0]
    /\ wg = [i \in Inv |-> 0]
    /\ errs = [i \in Inv |-> 0]
    /\ closed = [i \in Inv |-> [c \in {1, 2} |-> 0]]
    /\ collected = [i \in Inv |-> 0]
    /\ ret = [i \in Inv |-> Pending]
    /\ idSet = [i \in Inv |-> FALSE]
    /\ before = [i \in Inv |-> NoRules]

\* one call of any kind on server P1
Init ==
    InitWith({c \in [Inv -> Calls(P1, Names, Ranges) \cup {NoCall}] :
                 c[1] # NoCall /\ c[2] = NoCall},
             Stores(P1, Names))

\* two calls of any kinds on server P1, running concurrently
InitPair ==
    InitWith([Inv -> Calls(P1, PairNames, InitialRanges)], Stores(P1, PairNames))

Next ==
    \/ \E i \in Inv : Lock(i)
    \/ \E i \in Inv : UpdateUnchanged(i)
    \/ \E i \in Inv : ListByServerComplete(i)
    \/ \E i \in Inv : ListFailed(i)
    \/ \E i \in Inv : CreateExists(i)
    \/ \E i \in Inv : CreateDispatch(i)
    \/ \E i \in Inv : UpdateDeletePhase(i)
    \/ \E i \in Inv : UpdateUpsertPhase(i)
    \/ \E i \in Inv : DeleteParseFailed(i)
    \/ \E i \in Inv : DeleteDispatch(i)
    \/ \E i \in Inv : RangeClosed(i)
    \/ \E i \in Inv : CreateFinish(i)
    \/ \E i \in Inv : UpdateFinish(i)
    \/ \E i \in Inv : DeleteFinish(i)
    \/ \E i \in Inv : ReadList(i)
    \/ \E i \in Inv : ReadMarkAsGone(i)
    \/ \E i \in Inv : ReadError(i)
    \/ \E i \in Inv : ReadEncode(i)
    \/ \E i \in Inv : \E k \in DOMAIN workers[i] : RangeRecv(i, k)
    \/ \E i \in Inv : \E k \in DOMAIN workers[i] : SemAcquire(i, k)
    \/ \E i \in Inv : \E k \in DOMAIN workers[i] : DeleteThenPoll(i, k)
    \/ \E i \in Inv : \E k \in DOMAIN workers[i] : CreateOrUpdateThenPoll(i, k)
    \/ \E i \in Inv : \E k \in DOMAIN workers[i] : SemRelease(i, k)
    \/ \E i \in Inv : \E k \in DOMAIN workers[i] : WgDone(i, k)
    \/ \E i \in Inv : \E c \in DOMAIN closers[i] : CloserWait(i, c)
    \/ \E i \in Inv : \E c \in DOMAIN closers[i] : CloserClose(i, c)

Spec == Init /\ [][Next]_vars

SpecPair == InitPair /\ [][Next]_vars

\* two concurrent calls on server P1, which holds no rule or both rules of
\* FairNames: a Create or an Update (seen as changed or not) of the first rule,
\* or a Delete
InitFair ==
    InitWith([Inv -> {c \in Calls(P1, FairNames, InitialRanges) :
                         DesiredNames(c.rules) \subseteq {1}}],
             {s \in Stores(P1, FairNames) :
                 \A n, m \in FairNames : s[RuleID(P1, n)] = s[RuleID(P1, m)]})

\* one call of any kind on server P1, which holds no rule or the second rule;
\* a Create or an Update asks for the first rule or for every rule, with
\* initial ranges
InitOne ==
    InitWith({c \in [Inv -> Calls(P1, Names, InitialRanges) \cup {NoCall}] :
                 /\ c[1] # NoCall
                 /\ DesiredNames(c[1].rules) \in {{}, {1}, Names}
                 /\ c[2] = NoCall},
             Stores(P1, {2}))

\* the Go scheduler keeps running goroutines that can run, and every remote
\* call returns (each Func runs under a timeout)
FairOne == InitOne /\ [][Next]_vars /\ WF_vars(Next)

\* the rules two servers hold when a run starts: each holds every rule of
\* names or none
StoresOfBoth(names) ==
    {s \in [RuleIDs -> InitialRanges \cup {NoRule}] :
        /\ \A id \in RuleIDs : s[id] # NoRule => id[4] \in names
        /\ \A id1, id2 \in RuleIDs :
               (id1[1] = id2[1] /\ id1[4] \in names /\ id2[4] \in names)
               => ((s[id1] = NoRule) <=> (s[id2] = NoRule))}

\* a call on server P1 (a Create or an Update of the first rule, a Delete or a
\* Read) and a call of any kind on server P2, running concurrently: two
\* servers of the same name in different subscriptions and resource groups,
\* the second outside the subscription of the provider
InitServers ==
    InitWith({c \in [Inv -> Calls(P1, FairNames, InitialRanges)
                                \cup Calls(P2, FairNames, Ranges)] :
                 /\ c[1].parent = P1
                 /\ DesiredNames(c[1].rules) \subseteq {1}
                 /\ c[2].parent = P2},
             StoresOfBoth(FairNames))

SpecServers == InitServers /\ [][Next]_vars

\* the same two calls, with no assumption on the scheduler
SpecFew == InitFair /\ [][Next]_vars

\* the Go scheduler keeps running goroutines that can run, and every remote
\* call returns (each Func runs under a timeout)
FairPair == InitFair /\ [][Next]_vars /\ WF_vars(Next)

----------------------------------------------------------------------------
(* What the claims speak of *)

WorkersOf(i, phase) == {k \in DOMAIN workers[i] : k[1] = phase}

\* the range loop has received the value of worker k
Collected(i, k) == workers[i][k].st \in {"sent", "released", "done"}

\* the single-item remote call of worker k is in flight
InFlight(i) == {k \in DOMAIN workers[i] : workers[i][k].st = "op"}

\* the workers whose remote call has returned an error
Failed(i) == {k \in DOMAIN workers[i] : workers[i][k].failed}

Returned(i) == pc[i] = "done"

HoldsLock(i) == locks[LockName(req[i].parent)] = i

----------------------------------------------------------------------------
(* C1 *)

\* C1, as claimed: when Update has returned nil for a desired set that differs
\* from the rules the server held, and no remote call failed, the server holds
\* exactly the desired rules.
C1_UpdateReachesDesired ==
    \A i \in Inv :
        (/\ req[i].kind = "Update"
         /\ Returned(i)
         /\ ret[i] = Nil
         /\ Failed(i) = {}
         /\ before[i] # req[i].rules)
        => ServerRules(req[i].parent) = req[i].rules

----------------------------------------------------------------------------
(* C2 *)

\* C2: once Create has listed a server that holds rules, it has returned the
\* import-as-exists error, has no worker, has not called SetID, does not hold
\* the lock, and the rules of the server are the ones it found.
C2_CreateOnNonEmptyFails ==
    \A i \in Inv :
        (req[i].kind = "Create" /\ listed[i] # {})
        => /\ Returned(i)
           /\ ret[i] = ImportAsExistsError
           /\ DOMAIN workers[i] = {}
           /\ ~idSet[i]
           /\ ~HoldsLock(i)
           /\ ServerRules(req[i].parent) = before[i]

\* a Create that found rules of any desired set has returned
C2_Witness ==
    \E i \in Inv :
        /\ req[i].kind = "Create"
        /\ Cardinality(listed[i]) = 2
        /\ Cardinality(DesiredNames(req[i].rules)) = 2
        /\ Returned(i)

----------------------------------------------------------------------------
(* C3 *)

\* C3, as claimed: when an entry point has returned from its range loop (with
\* nil or with the error of an item), the loop has received the value of every
\* worker it dispatched.
C3_ReturnsAfterAllCollected ==
    \A i \in Inv :
        (Returned(i) /\ ret[i].type \in {"nil", "item"})
        => \A k \in DOMAIN workers[i] : Collected(i, k)

----------------------------------------------------------------------------
(* C4 *)

\* C4: in an Update, when the call of a delete worker has returned an error,
\* there is no upsert worker.
C4_FailedDeleteStopsUpserts ==
    \A i \in Inv :
        (req[i].kind = "Update" /\ Failed(i) \cap WorkersOf(i, "delete") # {})
        => WorkersOf(i, "upsert") = {}

\* an Update with two delete workers, one failed and one not, has returned
C4_Witness ==
    \E i \in Inv :
        /\ req[i].kind = "Update"
        /\ Returned(i)
        /\ Cardinality(WorkersOf(i, "delete")) = 2
        /\ \E k \in WorkersOf(i, "delete") : workers[i][k].failed
        /\ \E k \in WorkersOf(i, "delete") : Collected(i, k) /\ ~workers[i][k].failed

----------------------------------------------------------------------------
(* C5 *)

\* C5: in an Update, as soon as an upsert worker exists, every delete worker
\* has finished: its call returned without error, its value was received, its
\* permit is back and its wg.Done() ran.  So no delete is in flight with an
\* upsert.
C5_DeletesBeforeUpserts ==
    \A i \in Inv :
        (req[i].kind = "Update" /\ WorkersOf(i, "upsert") # {})
        => \A d \in WorkersOf(i, "delete") :
               workers[i][d].st = "done" /\ ~workers[i][d].failed

\* an upsert is in flight in an Update that had rules to delete
C5_Witness ==
    \E i \in Inv :
        /\ req[i].kind = "Update"
        /\ Cardinality(WorkersOf(i, "delete")) = 2
        /\ \E k \in WorkersOf(i, "upsert") : workers[i][k].st = "op"

----------------------------------------------------------------------------
(* C6 *)

\* a remote call of invocation i is in flight: its listing or a single-item call
RemoteBusy(i) == pc[i] = "list" \/ InFlight(i) # {}

\* C6, as claimed: two invocations on the same server never have remote calls
\* in flight at the same time.
C6_SameParentSerialized ==
    \A i, j \in Inv :
        (i # j /\ req[i].parent = req[j].parent)
        => ~(RemoteBusy(i) /\ RemoteBusy(j))

----------------------------------------------------------------------------
(* C7 *)

\* C7: no invocation ever has more than maxConcurrency single-item remote
\* calls in flight, whatever the number of workers and whichever their phase.
C7_AtMostMaxConcurrencyInFlight ==
    \A i \in Inv : Cardinality(InFlight(i)) <= maxConcurrency

\* a phase of more than maxConcurrency workers has maxConcurrency calls in
\* flight and a worker waiting for a permit
C7_Witness ==
    \E i \in Inv : \E ph \in {"delete", "upsert"} :
        /\ Cardinality(WorkersOf(i, ph)) > maxConcurrency
        /\ Cardinality(InFlight(i)) = maxConcurrency
        /\ \E k \in WorkersOf(i, ph) : workers[i][k].st = "start"

----------------------------------------------------------------------------
(* C8 *)

\* C8, as claimed: when an entry point has returned from a phase of N workers
\* of which k have failed, 1 <= k < N, every one of the N values has been
\* received and no permit is held.
C8_NoLeakAfterFailures ==
    \A i \in Inv : \A ph \in {"delete", "upsert"} :
        (/\ Returned(i)
         /\ ret[i].type = "item"
         /\ ret[i].phase = ph
         /\ Cardinality(Failed(i) \cap WorkersOf(i, ph)) >= 1
         /\ Cardinality(Failed(i) \cap WorkersOf(i, ph)) < Cardinality(WorkersOf(i, ph)))
        => /\ \A k \in WorkersOf(i, ph) : Collected(i, k)
           /\ sem[i] = 0

----------------------------------------------------------------------------
(* C9 *)

\* C9: an invocation that holds the lock comes to have returned without it,
\* an invocation that has returned never holds it, and an invocation that
\* waits for the lock gets it.
C9_LockAlwaysReleased ==
    \A i \in Inv :
        /\ [](Returned(i) => ~HoldsLock(i))
        /\ HoldsLock(i) ~> (Returned(i) /\ ~HoldsLock(i))
        /\ (pc[i] = "idle" /\ req[i].kind \in Reconciles) ~> HoldsLock(i)

\* an invocation holds the lock after the other returned the error of an item
C9_Witness ==
    \E i, j \in Inv :
        /\ i # j
        /\ Returned(i)
        /\ ret[i].type = "item"
        /\ HoldsLock(j)

----------------------------------------------------------------------------
(* C10 *)

\* C10, as claimed: when an entry point has returned and the call of one of
\* its workers has returned an error, it has returned the error of a worker
\* whose call failed.
C10_ReturnsAnItemError ==
    \A i \in Inv :
        (Returned(i) /\ Failed(i) # {})
        => \E k \in Failed(i) : ret[i] = ItemError(k)

----------------------------------------------------------------------------
(* C11 *)

\* the IDs of the rules server p holds according to the rules r
HeldIDs(p, r) == {RuleID(p, n) : n \in DesiredNames(r)}

\* Delete has listed the rules, parsed every ID and is past its dispatch loop
DeleteDispatched(i) ==
    /\ req[i].kind = "Delete"
    /\ pc[i] \in {"rangeDel", "waitDel"} \/ (Returned(i) /\ ret[i].type \in {"nil", "item"})

----------------------------------------------------------------------------
(* C12 *)

\* C12: a Create, an Update or a Delete whose listing answered NotFound has
\* returned that error, has launched no worker and no closer, has not called
\* SetID and does not hold the lock; and a Read whose listing answered NotFound
\* goes on to return what MarkAsGone returns, never an encoded rule set.
C12_NotFoundIsTerminal ==
    /\ [](\A i \in Inv :
            ret[i] = ListError("NotFound") =>
                /\ req[i].kind \in Reconciles
                /\ Returned(i)
                /\ DOMAIN workers[i] = {}
                /\ closers[i] = <<>>
                /\ listed[i] = {}
                /\ ~idSet[i]
                /\ ~HoldsLock(i))
    /\ [][\A i \in Inv :
            (pc[i] = "readNotFound" /\ pc'[i] # "readNotFound") =>
                /\ ret'[i] = Gone
                /\ pc'[i] = "done"
                /\ listed'[i] = {}]_vars
    /\ [](\A i \in Inv : ret[i].type = "encoded" => req[i].kind = "Read")

\* a Read of a server that holds rules was marked as gone, and a Delete of it
\* returned the NotFound error of its listing
C12_Witness ==
    \E i, j \in Inv :
        /\ req[i].kind = "Read"
        /\ ret[i] = Gone
        /\ req[j].kind = "Delete"
        /\ ret[j] = ListError("NotFound")
        /\ ServerRules(req[j].parent) # NoRules

----------------------------------------------------------------------------
(* C13 *)

\* C13, as claimed: when an Update whose desired set is the set the server
\* already held has returned nil, it has no delete worker, it has one
\* createOrUpdate worker for every desired rule, each of them finished, and the
\* server holds the rules it held.
C13_SecondRunResendsAll ==
    \A i \in Inv :
        (/\ req[i].kind = "Update"
         /\ before[i] = req[i].rules
         /\ Returned(i)
         /\ ret[i] = Nil)
        => /\ WorkersOf(i, "delete") = {}
           /\ WorkersOf(i, "upsert") =
                  {<<"upsert", id>> : id \in HeldIDs(req[i].parent, req[i].rules)}
           /\ \A k \in WorkersOf(i, "upsert") : workers[i][k].st = "done"
           /\ ServerRules(req[i].parent) = before[i]

----------------------------------------------------------------------------
(* C14 *)

\* invocation j is at its locks.ByName and the mutex it asks for is held
Blocked(j) ==
    /\ pc[j] = "idle"
    /\ req[j].kind \in Reconciles
    /\ locks[LockName(req[j].parent)] # 0

\* C14, as claimed: an invocation is never kept waiting for its lock by an
\* invocation on a different server.
C14_DifferentParentsNeverBlock ==
    \A i, j \in Inv :
        (i # j /\ req[i].parent # req[j].parent /\ HoldsLock(i)) => ~Blocked(j)

----------------------------------------------------------------------------
(* C15 *)

\* Update has computed its diff and is past the dispatch of its delete phase
UpdateDiffed(i) ==
    /\ req[i].kind = "Update"
    /\ pc[i] \in {"rangeDel", "waitDel", "rangeUps", "waitUps"}
           \/ (Returned(i) /\ ret[i].type \in {"nil", "item"} /\ errs[i] # 0)

\* Update is past the dispatch of its upsert phase
UpdateUpserting(i) ==
    /\ req[i].kind = "Update"
    /\ errs[i] = 2

\* C15, as claimed: the delete workers of an Update are exactly the listed
\* rules whose name is not desired, its createOrUpdate workers are exactly the
\* desired rules of its server, each with the desired addresses, and no rule
\* name has both a delete and a createOrUpdate worker.
C15_DiffByName ==
    \A i \in Inv :
        /\ UpdateDiffed(i) =>
               WorkersOf(i, "delete") =
                   {<<"delete", v.id.segs>> : v \in
                       {w \in listed[i] : w.id.segs[4] \notin DesiredNames(req[i].rules)}}
        /\ UpdateUpserting(i) =>
               /\ WorkersOf(i, "upsert") =
                      {<<"upsert", id>> : id \in HeldIDs(req[i].parent, req[i].rules)}
               /\ \A k \in WorkersOf(i, "upsert") :
                      workers[i][k].rule = req[i].rules[k[2][4]]
        /\ req[i].kind = "Update" =>
               \A d \in WorkersOf(i, "delete") : \A u \in WorkersOf(i, "upsert") :
                   d[2][4] # u[2][4]

----------------------------------------------------------------------------
(* C16 *)

\* what a listing of server p can answer in the current state
Listings(p) == {ListItems(p, nc) : nc \in SUBSET Names}

\* C16: an invocation that has not yet listed holds no Items and has no
\* worker; Items are only ever set by the listing the invocation makes while
\* it holds the lock, to what the server holds at that moment; and workers are
\* only ever launched by an invocation that holds the lock, either in the step
\* that lists or, for the upsert phase of Update, after that step with the
\* Items untouched.
C16_ListedAfreshUnderLock ==
    /\ [](\A i \in Inv :
            pc[i] \in {"idle", "locked", "list"} =>
                listed[i] = {} /\ DOMAIN workers[i] = {})
    /\ [][\A i \in Inv :
            (req[i].kind \in Reconciles /\ listed'[i] # listed[i]) =>
                /\ pc[i] = "list"
                /\ HoldsLock(i)
                /\ listed'[i] \in Listings(req[i].parent)]_vars
    /\ [][\A i \in Inv :
            DOMAIN workers'[i] # DOMAIN workers[i] =>
                /\ HoldsLock(i)
                /\ \/ pc[i] = "list" /\ listed'[i] \in Listings(req[i].parent)
                   \/ pc[i] = "waitDel" /\ req[i].kind = "Update" /\ listed'[i] = listed[i]]_vars

\* a Delete has launched a worker for a rule that a Create, which returned
\* before the Delete took the lock, had written
C16_Witness ==
    \E i, j \in Inv :
        /\ req[i].kind = "Create"
        /\ Returned(i)
        /\ ret[i] = Nil
        /\ req[j].kind = "Delete"
        /\ before[i] = NoRules
        /\ before[j] # NoRules
        /\ WorkersOf(j, "delete") # {}

----------------------------------------------------------------------------
(* C17 *)

\* C17: an invocation that is in a range loop comes to have returned nil
\* unless the call of one of its workers fails; and an invocation that has
\* returned nil has received one value from every worker, every worker has
\* finished, every closer has closed its channel, the WaitGroup counter is
\* zero and no permit is taken; a Create that has returned nil had one worker
\* for every desired rule and the server holds the desired rules.
C17_ExecutorTerminates ==
    \A i \in Inv :
        /\ (pc[i] \in RangePcs) ~> (Failed(i) # {} \/ (Returned(i) /\ ret[i] = Nil))
        /\ []((Returned(i) /\ ret[i] = Nil) =>
                /\ \A k \in DOMAIN workers[i] :
                       workers[i][k].st = "done" /\ ~workers[i][k].failed
                /\ \A c \in DOMAIN closers[i] : closers[i][c] = "done"
                /\ collected[i] = Cardinality(DOMAIN workers[i])
                /\ wg[i] = 0
                /\ sem[i] = 0
                /\ req[i].kind = "Create" =>
                       /\ DOMAIN workers[i] =
                              {<<"upsert", id>> : id \in HeldIDs(req[i].parent, req[i].rules)}
                       /\ ServerRules(req[i].parent) = req[i].rules)

\* an Update with no rule to delete and more rules to write than there are
\* permits has returned nil
C17_Witness ==
    \E i \in Inv :
        /\ req[i].kind = "Update"
        /\ Returned(i)
        /\ ret[i] = Nil
        /\ WorkersOf(i, "delete") = {}
        /\ Len(closers[i]) = 2
        /\ Cardinality(WorkersOf(i, "upsert")) > maxConcurrency

----------------------------------------------------------------------------
(* C18 *)

\* the workers that send on channel c
SendersOn(i, c) == {k \in DOMAIN workers[i] : workers[i][k].ch = c}

\* C18: channel c is closed by the c-th closer and by nobody else, hence at
\* most once and never by the closer of the other phase; when it is closed
\* every worker that sends on it has sent, given its permit back and run
\* wg.Done, so no worker is left to send on a closed channel; and when Update
\* makes the channel of its upsert phase the WaitGroup counter is zero, no
\* permit is taken and the channel of the delete phase is closed.
C18_ChannelsClosedOnceAfterSends ==
    /\ [](\A i \in Inv : \A c \in {1, 2} :
            /\ closed[i][c] =
                   IF c \in DOMAIN closers[i] /\ closers[i][c] = "done" THEN 1 ELSE 0
            /\ closed[i][c] > 0 =>
                   \A k \in SendersOn(i, c) : workers[i][k].st = "done"
            /\ \A k \in SendersOn(i, c) :
                   workers[i][k].st \in {"start", "op", "send"} => closed[i][c] = 0)
    /\ [][\A i \in Inv :
            (errs[i] # 2 /\ errs'[i] = 2) =>
                /\ req[i].kind = "Update"
                /\ wg[i] = 0
                /\ sem[i] = 0
                /\ closed[i][1] = 1
                /\ closed'[i][2] = 0
                /\ \A k \in DOMAIN workers[i] : workers[i][k].st = "done"]_vars

\* an Update with workers in both phases has both its channels closed
C18_Witness ==
    \E i \in Inv :
        /\ req[i].kind = "Update"
        /\ Cardinality(WorkersOf(i, "delete")) = 2
        /\ WorkersOf(i, "upsert") # {}
        /\ closed[i][1] = 1
        /\ closed[i][2] = 1

----------------------------------------------------------------------------
(* C19 *)

\* C19: SetID has been called exactly when a Create has returned nil, and by
\* no other entry point; a Create that has returned nil found the server
\* without rules and has one createOrUpdate worker for every desired rule,
\* each of which succeeded; and a Create with a failed worker has not called
\* SetID and does not return nil.
C19_SetIDIffCreateSucceeds ==
    \A i \in Inv :
        /\ idSet[i] <=> (req[i].kind = "Create" /\ Returned(i) /\ ret[i] = Nil)
        /\ (req[i].kind = "Create" /\ Returned(i) /\ ret[i] = Nil) =>
               /\ listed[i] = {}
               /\ before[i] = NoRules
               /\ WorkersOf(i, "upsert") =
                      {<<"upsert", id>> : id \in HeldIDs(req[i].parent, req[i].rules)}
               /\ \A k \in DOMAIN workers[i] :
                      workers[i][k].st = "done" /\ ~workers[i][k].failed
        /\ (req[i].kind = "Create" /\ Failed(i) # {}) => ~idSet[i] /\ ret[i] # Nil

\* a Create of more rules than there are permits has returned nil with its
\* ID set
C19_Witness ==
    \E i \in Inv :
        /\ req[i].kind = "Create"
        /\ Returned(i)
        /\ ret[i] = Nil
        /\ idSet[i]
        /\ Cardinality(WorkersOf(i, "upsert")) > maxConcurrency

----------------------------------------------------------------------------
(* C20 *)

\* C20, as claimed: when Delete has returned the error of a listed ID that
\* does not parse, it has launched no worker and the server holds the rules
\* it held.
C20_ParseErrorDispatchesNothing ==
    \A i \in Inv :
        (req[i].kind = "Delete" /\ Returned(i) /\ ret[i] = ParseError)
        => /\ DOMAIN workers[i] = {}
           /\ ServerRules(req[i].parent) = before[i]

====
